---- MODULE Spec2Model ----
(***************************************************************************)
(* parabens.vc: the shortlink store (handlers.go) and the og-image render  *)
(* queue (ogimage.go), modelled as state machines.                         *)
(*                                                                         *)
(* Strings that the code inspects character by character (request paths,   *)
(* stored paths) are sequences of one-character strings; short codes are   *)
(* atomic strings, "" being the empty code.                                *)
(***************************************************************************)
EXTENDS Integers, Sequences, FiniteSets, TLC

\* ------------------------------------------------------------------ bounds
NumThreads == 2
MaxRequests == 2
NumCallers == 3
MaxJobs == 3
\* Capacity of the jobs channel in the model (the program's is 32): smaller
\* than the number of callers, so that a send finds the channel full.
QueueCap == 2

Threads == 1..NumThreads
Callers == 1..NumCallers

\* ------------------------------------------------------- string helpers
RECURSIVE TrimLeft(_)
TrimLeft(s) ==
    IF s # <<>> /\ Head(s) = " " THEN TrimLeft(Tail(s)) ELSE s

RECURSIVE TrimRight(_)
TrimRight(s) ==
    IF s # <<>> /\ s[Len(s)] = " " THEN TrimRight(SubSeq(s, 1, Len(s) - 1)) ELSE s

\* strings.TrimSpace
TrimSpace(s) == TrimRight(TrimLeft(s))

\* strings.HasPrefix
HasPrefix(s, p) == Len(s) >= Len(p) /\ SubSeq(s, 1, Len(p)) = p

\* strings.TrimPrefix
TrimPrefix(s, p) == IF HasPrefix(s, p) THEN SubSeq(s, Len(p) + 1, Len(s)) ELSE s

\* strings.Index for a one-character needle; 0 when absent (Go: -1)
IndexOf(s, ch) ==
    IF \E i \in 1..Len(s) : s[i] = ch
    THEN CHOOSE i \in 1..Len(s) : s[i] = ch /\ \A j \in 1..(i - 1) : s[j] # ch
    ELSE 0

\* strings.Contains
Contains(s, sub) ==
    \E i \in 1..(Len(s) - Len(sub) + 1) : SubSeq(s, i, i + Len(sub) - 1) = sub

\* strings.ReplaceAll for one-character old and new
ReplaceChar(s, old, new) == [i \in 1..Len(s) |-> IF s[i] = old THEN new ELSE s[i]]

\* strings.ToLower on the characters the model uses
LowerChar(ch) == IF ch = "A" THEN "a" ELSE IF ch = "X" THEN "x" ELSE ch
ToLower(s) == [i \in 1..Len(s) |-> LowerChar(s[i])]

\* strings.Join(strings.Fields(s), " "): runs of blanks collapse, ends trimmed
RECURSIVE SquashSpaces(_)
SquashSpaces(s) ==
    IF Len(s) < 2 THEN s
    ELSE IF s[1] = " " /\ s[2] = " " THEN SquashSpaces(Tail(s))
    ELSE <<s[1]>> \o SquashSpaces(Tail(s))
JoinFields(s) == TrimSpace(SquashSpaces(s))

\* ------------------------------------------------------------ Go maps
EmptyMap == [x \in {} |-> <<>>]
MapPut(m, k, v) == [x \in (DOMAIN m) \cup {k} |-> IF x = k THEN v ELSE m[x]]
MapDelete(m, k) == [x \in (DOMAIN m) \ {k} |-> m[x]]
Range(m) == {m[x] : x \in DOMAIN m}

\* ===================================================== shortlink store
\* Alphabet of generateCode, cut down to two codes so that collisions happen.
Codes == {"c1", "c2"}

\* The retry bound of the code generation loop.
MaxAttempts == 10

\* Paths of the model.
PathA == <<"/", "a">>
PathB == <<"/", "b">>

\* req.Path values that creation requests carry.
RawPaths == {<<"a">>, PathA, PathB, <<" ">>, <<"/", "x">>, <<"/", "_">>}

\* Values that a snapshot file maps codes to: the empty string, a path in
\* the new format (leading "/") and a message in the old format.
SnapPaths == {<<>>, PathA, <<"a">>}

\* Terms of public/blocked-words.txt, after normalizeForBlock.
blockedTerms == {<<"x">>}

\* Keys of the occasions table.
occasions == {<<"p", "r", "o", "m", "o", "c", "a", "o">>}

\* Contents of the snapshot file: missing, not JSON for a map (this includes
\* a truncated or partly written file), the JSON value null, or an object.
FileAbsent == [kind |-> "absent", entries |-> EmptyMap]
FileMalformed == [kind |-> "malformed", entries |-> EmptyMap]
FileNull == [kind |-> "null", entries |-> EmptyMap]
FileMap(m) == [kind |-> "map", entries |-> m]

SnapshotMaps == UNION {[D -> SnapPaths] : D \in SUBSET Codes}
Snapshots == {FileAbsent, FileMalformed, FileNull} \cup {FileMap(m) : m \in SnapshotMaps}

\* What ensureShortlinksLoaded holds in `entries` after json.Unmarshal.
NoEntries == [kind |-> "none", m |-> EmptyMap]

\* ------------------------------------------- request validation (pure)
\* url.PathEscape on the model's characters: "/", "?" and "%" are escaped,
\* letters, digits and "_" are not.
EscapeChar(ch) ==
    CASE ch = "/" -> <<"%", "2", "F">>
      [] ch = "?" -> <<"%", "3", "F">>
      [] ch = "%" -> <<"%", "2", "5">>
      [] ch = " " -> <<"%", "2", "0">>
      [] OTHER -> <<ch>>

RECURSIVE PathEscape(_)
PathEscape(s) ==
    IF s = <<>> THEN <<>> ELSE EscapeChar(Head(s)) \o PathEscape(Tail(s))

\* The hexadecimal digits among the model's characters.
HexChars == {"0", "2", "3", "5", "F", "a", "b"}

\* The character that the escape %xy stands for; "#" for a byte that is
\* none of the model's characters.
UnescapeChar(x, y) ==
    CASE <<x, y>> = <<"2", "F">> -> "/"
      [] <<x, y>> = <<"3", "F">> -> "?"
      [] <<x, y>> = <<"2", "5">> -> "%"
      [] <<x, y>> = <<"2", "0">> -> " "
      [] OTHER -> "#"

\* url.PathUnescape: ok is FALSE for a "%" that two hexadecimal digits do
\* not follow.
RECURSIVE PathUnescape(_)
PathUnescape(s) ==
    IF s = <<>> THEN [ok |-> TRUE, val |-> <<>>]
    ELSE IF Head(s) # "%"
    THEN LET r == PathUnescape(Tail(s))
         IN  [ok |-> r.ok, val |-> <<Head(s)>> \o r.val]
    ELSE IF Len(s) < 3 \/ s[2] \notin HexChars \/ s[3] \notin HexChars
    THEN [ok |-> FALSE, val |-> <<>>]
    ELSE LET r == PathUnescape(SubSeq(s, 4, Len(s)))
         IN  [ok |-> r.ok, val |-> <<UnescapeChar(s[2], s[3])>> \o r.val]

\* Mutant: decodePath leaves "_" as it is.
UnderscoreToSpace_Kept(s) == s

\* strings.ReplaceAll(decoded, "_", " ")
UnderscoreToSpace(s) == ReplaceChar(s, "_", " ")

\* decodePath: unescape (the raw string is returned when that fails), "_"
\* becomes " ", then trim.
decodePath(raw) ==
    IF raw = <<>> THEN <<>>
    ELSE IF ~PathUnescape(raw).ok THEN raw
    ELSE TrimSpace(UnderscoreToSpace(PathUnescape(raw).val))

\* encodePathSegment: trim, " " becomes "_", then escape.
encodePathSegment(value) ==
    IF TrimSpace(value) = <<>> THEN <<>>
    ELSE PathEscape(ReplaceChar(TrimSpace(value), " ", "_"))

\* The message part that parseOccasionFromPath returns.
parseOccasionMessage(path) ==
    LET p == TrimPrefix(path, <<"/">>)
        i == IndexOf(p, "/")
        first == IF i = 0 THEN p ELSE SubSeq(p, 1, i - 1)
    IN  IF p = <<>> THEN <<>>
        ELSE IF ToLower(first) \in occasions
             THEN (IF i = 0 THEN <<>> ELSE SubSeq(p, i + 1, Len(p)))
             ELSE p

\* normalizeForBlock on the model's characters (letters, blank, "_", "-", "/").
BlockChar(ch) == IF ch \in {"a", "b", "o", "x", " "} THEN ch ELSE " "
normalizeForBlock(value) ==
    LET v == TrimSpace(ToLower(value))
    IN  IF v = <<>> THEN <<>>
        ELSE JoinFields([i \in 1..Len(v) |-> BlockChar(v[i])])

isBlockedMessage(message) ==
    LET normalized == normalizeForBlock(message)
    IN  /\ blockedTerms # {}
        /\ normalized # <<>>
        /\ \E term \in blockedTerms : term # <<>> /\ Contains(normalized, term)

\* fullPath of a creation request: trimmed, with a leading "/".
FullPathOf(reqPath) ==
    LET p == TrimSpace(reqPath)
    IN  IF HasPrefix(p, <<"/">>) THEN p ELSE <<"/">> \o p

\* The message of a creation request, checked against the blocked terms.
MessageOf(fullPath) ==
    LET q == IndexOf(fullPath, "?")
        pathOnly == IF q # 0 THEN SubSeq(fullPath, 1, q - 1) ELSE fullPath
    IN  decodePath(parseOccasionMessage(pathOnly))

\* Bodies of creation requests.
Bodies ==
    {[kind |-> "toolarge", path |-> <<>>], [kind |-> "badjson", path |-> <<>>]}
    \cup {[kind |-> "json", path |-> p] : p \in RawPaths}

\* Mutant: the blocked-message test is left out.
ValidateBody_NoBlockTest(body) ==
    IF body.kind = "toolarge" THEN 413
    ELSE IF body.kind = "badjson" \/ TrimSpace(body.path) = <<>> THEN 400
    ELSE IF MessageOf(FullPathOf(body.path)) = <<>> THEN 400
    ELSE 0

\* The status with which handleShortlinkCreate rejects a body after
\* ensureShortlinksLoaded has returned nil; 0 when the body is accepted.
ValidateBody(body) ==
    IF body.kind = "toolarge" THEN 413
    ELSE IF body.kind = "badjson" \/ TrimSpace(body.path) = <<>> THEN 400
    ELSE IF MessageOf(FullPathOf(body.path)) = <<>> THEN 400
    ELSE IF isBlockedMessage(MessageOf(FullPathOf(body.path))) THEN 403
    ELSE 0


VARIABLES
    loaded,     \* shortlinks.loaded
    byCode,     \* shortlinks.byCode, code -> path
    byCodeNil,  \* TRUE when shortlinks.byCode is the nil map
    byPath,     \* shortlinks.byPath, path -> code
    mu,         \* shortlinks.mu: 0 when free, else the thread that holds it
    file,       \* the snapshot file at shortlinkDBPath()
    th,         \* per request goroutine: position and locals
    answer,     \* the HTTP answer written by the last step, if it wrote one
    nreq,       \* requests started so far
    created,    \* history: <<code, path>> pairs answered with 201
    installs,   \* history: times ensureShortlinksLoaded installed the indices
    firstRes    \* history: results of the ensureShortlinksLoaded calls that
                \* found the store not loaded ("ok" for nil, "err")

storeVars == <<loaded, byCode, byCodeNil, byPath, mu, file, th, answer, nreq,
               created, installs, firstRes>>

\* ------------------------------------------------------- render queue
\* Cache keys of the model.
Keys == {"k1", "k2"}

VARIABLES
    jobs,       \* q.jobs: the buffered channel, oldest job first
    cl,         \* per caller of render (handleOgImage, or a direct call as in
                \* the tests): position and key
    done,       \* per caller: the done channel of its job ("none" when empty,
                \* "nil" or the error that the worker sent)
    wk,         \* the worker goroutine q.run: position and current job
    active,     \* jobs whose renderOgImageToFileFunc call is executing
    cache,      \* per key: the file at ogCachePath(key)
    calls,      \* history: per key, calls of renderOgImageToFileFunc
    nextId,     \* history: jobs enqueued so far
    started,    \* history: job ids in the order the worker received them
    completed,  \* history: job ids in the order the worker sent their result
    ret         \* what the last step returned from render, if it returned, and
                \* what handleOgImage answered, if it answered

queueVars == <<jobs, cl, done, wk, active, cache, calls, nextId, started,
               completed, ret>>

\* ------------------------------------------------------- rate limiter
VARIABLES
    now,        \* the clock that time.Now() reads, in ticks
    hits,       \* rl.hits: per key, the timestamps kept by the last call
    log         \* history: the calls of allow, in the order they held rl.mu

limVars == <<now, hits, log>>

\* A call of encodePathSegment followed by decodePath on its result: the
\* message, the encoded segment and the decoded message.
VARIABLES codec

codecVars == <<codec>>

\* The clients that have gone away (connection closed or timed out) while
\* their request was being served: the goroutines of creation requests and
\* the ids of render jobs.
VARIABLES gone

clientVars == <<gone>>

vars == <<storeVars, queueVars, limVars, codecVars, clientVars>>

IdleThread ==
    [pc |-> "idle", op |-> "none", verdict |-> 0,
     fullPath |-> <<>>, code |-> "", entries |-> NoEntries,
     status |-> 0, respCode |-> "", respPath |-> <<>>,
     preCode |-> EmptyMap, prePath |-> EmptyMap]

NoAnswer == [t |-> 0, op |-> "none", status |-> 0, code |-> "", path |-> <<>>]

StoreInit ==
    /\ loaded = FALSE
    /\ byCode = EmptyMap
    /\ byCodeNil = FALSE
    /\ byPath = EmptyMap
    /\ mu = 0
    /\ file \in Snapshots
    /\ th = [t \in Threads |-> IdleThread]
    /\ answer = NoAnswer
    /\ nreq = 0
    /\ created = {}
    /\ installs = 0
    /\ firstRes = {}

\* A request that has been answered with status st.
Done(r, st) == [r EXCEPT !.pc = "idle", !.status = st]

\* The answer that an answered request wrote: for a creation the code and
\* the path of the response, for a redirect the code asked for and the path
\* of the Location header.
AnswerOf(t, r) ==
    [t |-> t, op |-> r.op, status |-> r.status,
     code |-> IF r.op = "create" THEN r.respCode ELSE r.code,
     path |-> IF r.op = "create" THEN r.fullPath ELSE r.respPath]

\* Goroutine t moves to record r; when r is answered the goroutine ends and
\* its locals are gone.
Goto(t, r) ==
    /\ th' = [th EXCEPT ![t] = IF r.pc = "idle" THEN IdleThread ELSE r]
    /\ answer' = IF r.pc = "idle" THEN AnswerOf(t, r) ELSE NoAnswer
    /\ UNCHANGED <<queueVars, limVars, codecVars, clientVars>>

\* ------------------------------------------------ ensureShortlinksLoaded
\* shortlinks.mu.Lock() returns only when no goroutine holds the mutex.
CanLock == mu = 0

\* The reverse indices that the range loop over `entries` can build: for a
\* path that several codes map to, the code written last wins, and Go's map
\* iteration order is unspecified.
InverseMaps(m) == {f \in [Range(m) -> DOMAIN m] : \A p \in Range(m) : m[f[p]] = p}

\* What the caller does when ensureShortlinksLoaded returns (err = TRUE: a
\* non-nil error): handleShortlinkCreate answers 500, or the status of a
\* rejected body, or goes on to the critical section;
\* handleShortlinkRedirect answers 500, or 404 for the empty code, or goes
\* on to the lookup.
EnsureReturn(r, err) ==
    LET r1 == [r EXCEPT !.entries = NoEntries]
    IN  IF err THEN Done(r1, 500)
        ELSE IF r.op = "create"
        THEN IF r.verdict # 0
             THEN Done(r1, r.verdict)
             ELSE [r1 EXCEPT !.pc = "c_lock"]
        ELSE IF r.code = "" THEN Done(r1, 404)
             ELSE [r1 EXCEPT !.pc = "r_lookup"]

\* Lock; read shortlinks.loaded; Unlock.
EnsureCheck(t) ==
    /\ th[t].pc = "e_check"
    /\ CanLock
    /\ Goto(t, IF loaded THEN EnsureReturn(th[t], FALSE)
               ELSE [th[t] EXCEPT !.pc = "e_read"])
    /\ UNCHANGED <<loaded, byCode, byCodeNil, byPath, mu, file, nreq, created,
                   installs, firstRes>>

\* Mutant: the error of json.Unmarshal is ignored.
UnmarshalFails_Ignored(f) == FALSE

\* Whether json.Unmarshal into a map[string]string returns an error.
UnmarshalFails(f) == f.kind = "malformed"

\* os.ReadFile and json.Unmarshal, outside the lock.
EnsureRead(t) ==
    /\ th[t].pc = "e_read"
    /\ Goto(t, IF file.kind = "absent" THEN [th[t] EXCEPT !.pc = "e_mark"]
               ELSE IF UnmarshalFails(file) THEN EnsureReturn(th[t], TRUE)
               ELSE [th[t] EXCEPT
                       !.pc = "e_install",
                       !.entries = [kind |-> IF file.kind = "null" THEN "null" ELSE "map",
                                    m |-> file.entries]])
    /\ firstRes' = IF file.kind # "absent" /\ UnmarshalFails(file)
                   THEN firstRes \cup {"err"} ELSE firstRes
    /\ UNCHANGED <<loaded, byCode, byCodeNil, byPath, mu, file, nreq, created, installs>>

\* Mutant: a missing snapshot file is reported as an error.
EnsureMark_ReturnsError(t) ==
    /\ th[t].pc = "e_mark"
    /\ CanLock
    /\ Goto(t, EnsureReturn(th[t], TRUE))
    /\ firstRes' = firstRes \cup {"err"}
    /\ UNCHANGED <<loaded, byCode, byCodeNil, byPath, mu, file, nreq, created, installs>>

\* The file does not exist: Lock; loaded = true; Unlock.
EnsureMark(t) ==
    /\ th[t].pc = "e_mark"
    /\ CanLock
    /\ loaded' = TRUE
    /\ Goto(t, EnsureReturn(th[t], FALSE))
    /\ firstRes' = firstRes \cup {"ok"}
    /\ UNCHANGED <<byCode, byCodeNil, byPath, mu, file, nreq, created, installs>>

\* Mutant: the final block installs `entries` whether or not the store is
\* loaded by now.
ShouldInstall_Always == TRUE

\* Whether the final block of ensureShortlinksLoaded installs `entries`.
ShouldInstall == ~loaded

\* Lock; install the indices unless the store is loaded by now; Unlock.
EnsureInstall(t) ==
    /\ th[t].pc = "e_install"
    /\ CanLock
    /\ IF ShouldInstall
       THEN /\ byCode' = th[t].entries.m
            /\ byCodeNil' = (th[t].entries.kind = "null")
            /\ byPath' \in InverseMaps(th[t].entries.m)
            /\ loaded' = TRUE
            /\ installs' = installs + 1
       ELSE UNCHANGED <<byCode, byCodeNil, byPath, loaded, installs>>
    /\ Goto(t, EnsureReturn(th[t], FALSE))
    /\ firstRes' = firstRes \cup {"ok"}
    /\ UNCHANGED <<mu, file, nreq, created>>

\* ------------------------------------------------ handleShortlinkCreate
\* The values `code` can have when the generation loop ends, from iteration
\* i on with `code` holding `last`: generateCode returns any code; the loop
\* breaks at the first candidate that is not a key of byCode.
RECURSIVE LoopCodes(_, _, _)
LoopCodes(i, last, keys) ==
    IF i >= MaxAttempts THEN {last}
    ELSE UNION {IF c \notin keys THEN {c} ELSE LoopCodes(i + 1, c, keys) : c \in Codes}

\* byCode[code] of Go: the zero value "" for a missing key.
MapGet(m, k) == IF k \in DOMAIN m THEN m[k] ELSE <<>>

\* The test after the loop that answers 503.
Exhausted(bc, code) == code = "" \/ MapGet(bc, code) # <<>>

\* Mutant: the reverse index is not consulted.
PathKnown_NeverFound(bp, path) == FALSE

\* code, ok := shortlinks.byPath[fullPath]: whether the path has a code.
PathKnown(bp, path) == path \in DOMAIN bp

\* Mutant: the forward index stores the path without its leading "/".
InsertByCode_NoSlash(bc, code, path) == MapPut(bc, code, Tail(path))

\* The two insertions of a new entry.
InsertByCode(bc, code, path) == MapPut(bc, code, path)
InsertByPath(bp, path, code) == MapPut(bp, path, code)

\* The two deletes of the rollback.
RollbackByCode(bc, code) == MapDelete(bc, code)
RollbackByPath(bp, path) == MapDelete(bp, path)

\* Creation requests: the method, the verdict of shortlinkLimiter.allow and
\* the body.
CreateRequests ==
    {[method |-> "GET", allow |-> TRUE, body |-> [kind |-> "json", path |-> PathA]],
     [method |-> "POST", allow |-> FALSE, body |-> [kind |-> "json", path |-> PathA]]}
    \cup {[method |-> "POST", allow |-> TRUE, body |-> b] : b \in Bodies}

StartCreate(t) ==
    /\ th[t].pc = "idle"
    /\ nreq < MaxRequests
    /\ nreq' = nreq + 1
    /\ \E req \in CreateRequests :
         \* the body is used by ValidateBody and FullPathOf only: the
         \* record keeps their results
         LET r == [IdleThread EXCEPT
                     !.op = "create",
                     !.verdict = ValidateBody(req.body),
                     !.fullPath = IF ValidateBody(req.body) = 0
                                  THEN FullPathOf(req.body.path) ELSE <<>>]
         IN  Goto(t, IF req.method # "POST" THEN Done(r, 405)
                     ELSE IF ~req.allow THEN Done(r, 429)
                     ELSE [r EXCEPT !.pc = "e_check"])
    /\ UNCHANGED <<loaded, byCode, byCodeNil, byPath, mu, file, created, installs,
                   firstRes>>

\* From shortlinks.mu.Lock() to the insertion into both indices.
CreateLock(t) ==
    /\ th[t].pc = "c_lock"
    /\ CanLock
    /\ IF PathKnown(byPath, th[t].fullPath)
       THEN /\ Goto(t, [Done(th[t], 200) EXCEPT !.respCode = byPath[th[t].fullPath]])
            /\ UNCHANGED <<byCode, byPath, mu>>
       ELSE \E code \in LoopCodes(0, "", DOMAIN byCode) :
              IF Exhausted(byCode, code)
              THEN /\ Goto(t, Done(th[t], 503))
                   /\ UNCHANGED <<byCode, byPath, mu>>
              ELSE IF byCodeNil
              THEN \* assignment to an entry of a nil map: the handler
                   \* panics and the mutex stays locked
                   /\ Goto(t, [th[t] EXCEPT !.pc = "panic", !.code = code])
                   /\ mu' = t
                   /\ UNCHANGED <<byCode, byPath>>
              ELSE /\ byCode' = InsertByCode(byCode, code, th[t].fullPath)
                   /\ byPath' = InsertByPath(byPath, th[t].fullPath, code)
                   /\ mu' = t
                   /\ Goto(t, [th[t] EXCEPT !.pc = "c_open", !.code = code,
                                            !.preCode = byCode, !.prePath = byPath])
    /\ UNCHANGED <<loaded, byCodeNil, file, nreq, created, installs, firstRes>>

\* The failure branch of persistShortlinksLocked: both deletes, Unlock, 500.
Rollback(t) ==
    /\ byCode' = RollbackByCode(byCode, th[t].code)
    /\ byPath' = RollbackByPath(byPath, th[t].fullPath)
    /\ mu' = 0
    /\ Goto(t, Done(th[t], 500))
    /\ UNCHANGED <<created>>

\* persistShortlinksLocked up to the open of os.WriteFile, which truncates
\* the file; MkdirAll, MarshalIndent or the open can fail.
CreateOpen(t) ==
    /\ th[t].pc = "c_open"
    /\ \E ok \in BOOLEAN :
         IF ok
         THEN /\ file' = FileMalformed
              /\ Goto(t, [th[t] EXCEPT !.pc = "c_write"])
              /\ UNCHANGED <<byCode, byPath, mu, created>>
         ELSE /\ Rollback(t)
              /\ UNCHANGED file
    /\ UNCHANGED <<loaded, byCodeNil, nreq, installs, firstRes>>

\* Mutant: the forward index is marshalled as an empty object.
MarshalIndex_Empty(bc) == FileMap(EmptyMap)

\* json.MarshalIndent(shortlinks.byCode): the content that os.WriteFile is
\* given.
MarshalIndex(bc) == FileMap(bc)

\* The write of os.WriteFile, then Unlock and the answer; a failed write
\* leaves the file partly written.
CreateWrite(t) ==
    /\ th[t].pc = "c_write"
    /\ \E ok \in BOOLEAN :
         IF ok
         THEN /\ file' = MarshalIndex(byCode)
              /\ mu' = 0
              /\ Goto(t, [Done(th[t], 201) EXCEPT !.respCode = th[t].code])
              /\ created' = created \cup {<<th[t].code, th[t].fullPath>>}
              /\ UNCHANGED <<byCode, byPath>>
         ELSE /\ Rollback(t)
              /\ UNCHANGED file
    /\ UNCHANGED <<loaded, byCodeNil, nreq, installs, firstRes>>

\* ---------------------------------------------- handleShortlinkRedirect
\* Codes that redirect requests ask for: "" is the request for /s/.
LookupCodes == Codes \cup {"", "zz"}

StartRedirect(t) ==
    /\ th[t].pc = "idle"
    /\ nreq < MaxRequests
    /\ nreq' = nreq + 1
    /\ \E method \in {"GET", "POST"}, code \in LookupCodes :
         LET r == [IdleThread EXCEPT !.op = "redirect", !.code = code]
         IN  Goto(t, IF method # "GET" THEN Done(r, 405)
                     ELSE [r EXCEPT !.pc = "e_check"])
    /\ UNCHANGED <<loaded, byCode, byCodeNil, byPath, mu, file, created, installs,
                   firstRes>>

\* The Location of the redirect for a stored path: the path itself in the
\* new format, "/" and the encoded message in the old one; <<>> when the
\* message encodes to nothing and the handler answers 404.
RedirectTarget(path) ==
    IF HasPrefix(path, <<"/">>) THEN path
    ELSE IF encodePathSegment(path) = <<>> THEN <<>>
    ELSE <<"/">> \o encodePathSegment(path)

\* Lock; path, ok := byCode[code]; Unlock; then the answer.
RedirectLookup(t) ==
    /\ th[t].pc = "r_lookup"
    /\ CanLock
    /\ Goto(t, IF th[t].code \notin DOMAIN byCode THEN Done(th[t], 404)
               ELSE IF RedirectTarget(byCode[th[t].code]) = <<>> THEN Done(th[t], 404)
               ELSE [Done(th[t], 302) EXCEPT
                       !.respPath = RedirectTarget(byCode[th[t].code])])
    /\ UNCHANGED <<loaded, byCode, byCodeNil, byPath, mu, file, nreq, created,
                   installs, firstRes>>

StoreNext ==
    \E t \in Threads :
        \/ StartCreate(t)
        \/ StartRedirect(t)
        \/ EnsureCheck(t)
        \/ EnsureRead(t)
        \/ EnsureMark(t)
        \/ EnsureInstall(t)
        \/ CreateLock(t)
        \/ CreateOpen(t)
        \/ CreateWrite(t)
        \/ RedirectLookup(t)

\* ========================================================= rate limiter
\* rl.window in ticks and rl.max (the program's limiters: one minute, 20 and
\* 120; the tests: 3 and 10).
RateWindow == 2
RateMax == 2

\* Bounds of the clock and of the number of calls.
MaxTime == 4
MaxCalls == 4

\* Keys of the limiter: client addresses.
LimKeys == {"ip1", "ip2"}

LimiterStart ==
    /\ now = 0
    /\ hits = [k \in LimKeys |-> <<>>]
    /\ log = <<>>

\* The render queue at rest.
IdleCaller == [pc |-> "idle", via |-> "none", key |-> "", id |-> 0, seen |-> "absent"]
IdleWorker == [pc |-> "recv", job |-> [id |-> 0, key |-> "", caller |-> 0]]
NoReturn == [c |-> 0, id |-> 0, key |-> "", err |-> FALSE, status |-> 0, body |-> "none"]

QueueStart ==
    /\ jobs = <<>>
    /\ cl = [c \in Callers |-> IdleCaller]
    /\ done = [c \in Callers |-> "none"]
    /\ wk = IdleWorker
    /\ active = {}
    /\ calls = [k \in Keys |-> 0]
    /\ nextId = 0
    /\ started = <<>>
    /\ completed = <<>>
    /\ ret = NoReturn

\* The shortlink store: the render queue is at rest with an empty cache.
\* No message under conversion.
NoCodec == [stage |-> "none", m |-> <<>>, enc |-> <<>>, dec |-> <<>>]

CodecStart == codec = NoCodec

\* Every client is connected.
NoneGone == [req |-> {}, job |-> {}]

ClientStart == gone = NoneGone

Init ==
    /\ StoreInit
    /\ QueueStart
    /\ LimiterStart
    /\ CodecStart
    /\ ClientStart
    /\ cache = [k \in Keys |-> "absent"]

Spec == Init /\ [][StoreNext]_vars


\* ================================================== claims on the store
\* The two indices mirror each other.
Consistent ==
    /\ \A c \in DOMAIN byCode :
          byCode[c] \in DOMAIN byPath /\ byPath[byCode[c]] = c
    /\ \A p \in DOMAIN byPath :
          byPath[p] \in DOMAIN byCode /\ byCode[byPath[p]] = p

\* C1 (as claimed): a creation answered 201 used a code that was not a key
\* of byCode when it was chosen, and no code is reported for two paths.
C1_CodeUniqueness ==
    [][/\ \A t \in Threads :
            (answer'.t = t /\ answer'.op = "create" /\ answer'.status = 201)
                => th[t].code \notin DOMAIN th[t].preCode
       /\ \A x \in created', y \in created' : x[1] = y[1] => x[2] = y[2]
      ]_vars

\* C2 (as claimed): whenever the store lock is free, byCode[c] = p exactly
\* when byPath[p] = c, and the indices have the same number of entries.
C2_IndexConsistency ==
    mu = 0 => (Consistent /\ Cardinality(DOMAIN byCode) = Cardinality(DOMAIN byPath))


\* Goroutine t takes a step.
Steps(t) == th'[t] # th[t] \/ answer'.t = t

\* C3: a creation request for a path that has a code is answered 200 with
\* that code in one step that changes neither index nor the snapshot file;
\* and the code of a path never changes afterwards (not from one unlocked
\* state to the next, nor across a critical section), so that repeating the
\* request gives the same answer.
C3_IdempotentCreation ==
    [][\A t \in Threads :
          /\ (th[t].pc = "c_lock" /\ Steps(t) /\ th[t].fullPath \in DOMAIN byPath)
                => /\ answer' = [t |-> t, op |-> "create", status |-> 200,
                                 code |-> byPath[th[t].fullPath],
                                 path |-> th[t].fullPath]
                   /\ UNCHANGED <<byCode, byCodeNil, byPath, file, created>>
          /\ (mu = 0 /\ mu' = 0)
                => \A p \in DOMAIN byPath :
                      loaded => (p \in DOMAIN byPath' /\ byPath'[p] = byPath[p])
          /\ (mu = t /\ mu' = 0)
                => \A p \in DOMAIN th[t].prePath :
                      p \in DOMAIN byPath' /\ byPath'[p] = th[t].prePath[p]
          /\ (mu = 0 /\ mu' = t /\ th'[t].pc = "c_open")
                => th'[t].prePath = byPath
      ]_vars

\* C3 witness: a path created earlier is asked for again and answered 200.
C3_Witness ==
    /\ answer.op = "create"
    /\ answer.status = 200
    /\ <<answer.code, answer.path>> \in created

\* C4: every <<code, path>> answered 201 stays in the forward index, and the
\* lookup of the redirect handler for such a code answers 302 with exactly
\* that path.
C4_RoundTrip ==
    [][/\ \A x \in created' : x[1] \in DOMAIN byCode' /\ byCode'[x[1]] = x[2]
       /\ \A t \in Threads :
            (th[t].pc = "r_lookup" /\ Steps(t))
                => \A x \in created :
                      x[1] = th[t].code
                          => answer' = [t |-> t, op |-> "redirect", status |-> 302,
                                        code |-> x[1], path |-> x[2]]
      ]_vars

\* C4 witness: a redirect request resolved a code that a creation returned.
C4_Witness ==
    /\ answer.op = "redirect"
    /\ answer.status = 302
    /\ <<answer.code, answer.path>> \in created

\* C5 (as claimed): a creation whose snapshot write fails is answered 500
\* and leaves both indices exactly as they were before the call; and no
\* lookup runs while an entry is inserted but not yet persisted.
C5_AtomicRollback ==
    [][\A t \in Threads :
          /\ (th[t].pc \in {"c_open", "c_write"} /\ answer'.t = t /\ answer'.status # 201)
                => /\ answer'.status = 500
                   /\ byCode' = th[t].preCode
                   /\ byPath' = th[t].prePath
          /\ (th[t].pc \in {"c_lock", "r_lookup"} /\ Steps(t))
                => \A u \in Threads \ {t} : th[u].pc \notin {"c_open", "c_write"}
      ]_vars

\* C9 (as claimed): the indices are installed at most once, and the
\* ensureShortlinksLoaded calls that found the store not loaded all return
\* the same result.
C9_ConcurrentFirstLoad ==
    installs <= 1 /\ Cardinality(firstRes) <= 1


\* C10 (as claimed): a create or resolve request with the right method that
\* is answered while the snapshot file is malformed is answered 500, and its
\* last step changes neither the indices nor the file.
C10_MalformedAlways500 ==
    [][(file.kind = "malformed" /\ answer'.status \notin {0, 405})
          => /\ answer'.status = 500
             /\ UNCHANGED <<byCode, byPath, file>>
      ]_vars

\* C10 (amended): while the store is not loaded and the snapshot file is
\* malformed, no step sets the loaded flag or changes an index or the file;
\* ensureShortlinksLoaded returns an error, so every request that got past
\* its method check and the rate limiter is answered 500, and the only
\* other answers are the 405 and 429 of those checks.
C10_MalformedSnapshot ==
    [][(~loaded /\ file.kind = "malformed")
          => /\ ~loaded'
             /\ UNCHANGED <<byCode, byCodeNil, byPath, file, created, mu>>
             /\ answer'.status \in {0, 405, 429, 500}
             /\ \A t \in Threads :
                   (th[t].pc # "idle" /\ Steps(t))
                       => /\ th[t].pc \in {"e_check", "e_read"}
                          /\ th[t].pc = "e_read"
                                => (answer'.t = t /\ answer'.status = 500)
      ]_vars

\* C10 witness: a request was answered 500 because the snapshot of the
\* store, still not loaded, is malformed.
C10_Witness ==
    /\ ~loaded
    /\ file.kind = "malformed"
    /\ answer.status = 500


\* What goroutine t is after ensureShortlinksLoaded has returned nil to it.
ReturnedNil(t) ==
    LET r == EnsureReturn(th[t], FALSE)
    IN  /\ th'[t] = IF r.pc = "idle" THEN IdleThread ELSE r
        /\ answer' = IF r.pc = "idle" THEN AnswerOf(t, r) ELSE NoAnswer
        /\ answer'.status # 500

\* C11: ensureShortlinksLoaded on a store that is not loaded, when
\* os.ReadFile finds no snapshot file, goes on to set shortlinks.loaded and
\* returns nil; it writes neither index nor the file, and the indices of a
\* store that was not loaded until then are empty.
C11_MissingSnapshot ==
    [][\A t \in Threads :
          /\ (th[t].pc = "e_read" /\ Steps(t) /\ file.kind = "absent")
                => /\ th'[t].pc = "e_mark"
                   /\ answer' = NoAnswer
                   /\ UNCHANGED <<loaded, byCode, byCodeNil, byPath, file>>
          /\ (th[t].pc = "e_mark" /\ Steps(t))
                => /\ loaded'
                   /\ ReturnedNil(t)
                   /\ UNCHANGED <<byCode, byCodeNil, byPath, file>>
                   /\ ~loaded => (byCode' = EmptyMap /\ byPath' = EmptyMap /\ ~byCodeNil')
      ]_vars

\* C11 witness: the store was loaded from a missing snapshot file and holds
\* no entry.
C11_Witness ==
    /\ loaded
    /\ file.kind = "absent"
    /\ "ok" \in firstRes
    /\ byCode = EmptyMap
    /\ byPath = EmptyMap

\* C12 (as claimed): a creation whose generation loop ends on a code that is
\* a key of byCode (all 10 candidates were keys) does not go on to insert,
\* and an answer 503 comes with no change of the indices or the file.
C12_CodeExhaustion ==
    [][\A t \in Threads :
          (th[t].pc = "c_lock" /\ Steps(t))
              => /\ th'[t].pc \in {"c_open", "panic"}
                        => th'[t].code \notin DOMAIN byCode
                 /\ answer'.status = 503
                        => UNCHANGED <<byCode, byCodeNil, byPath, file, created>>
      ]_vars

\* ------------------------------------ concurrent creation, fresh store
\* TestShortlinkConcurrency: the store is not loaded, there is no snapshot
\* file, each request is a valid POST for a path of its own that the rate
\* limiter lets through, and the disk accepts every write.
FreshPaths == <<PathA, PathB>>

FreshInit ==
    /\ Init
    /\ file = FileAbsent

FreshNext ==
    \E t \in Threads :
        \/ /\ nreq < Len(FreshPaths)
           /\ StartCreate(t)
           /\ th'[t].pc = "e_check"
           /\ th'[t].fullPath = FreshPaths[nreq + 1]
        \/ EnsureCheck(t)
        \/ EnsureRead(t)
        \/ EnsureMark(t)
        \/ EnsureInstall(t)
        \/ CreateLock(t)
        \/ CreateOpen(t) /\ th'[t].pc = "c_write"
        \/ CreateWrite(t) /\ answer'.status = 201

FreshSpec == FreshInit /\ [][FreshNext]_vars

\* C13 (as claimed): on a fresh store every concurrent creation request for
\* a path of its own is answered 201 (503 is let pass: the two codes of the
\* model make the 10 candidates collide), and once all requests are
\* answered the forward index holds one entry per request answered 201.
C13_ConcurrentCreation ==
    [][/\ answer'.status \in {0, 201, 503}
       /\ (\A t \in Threads : th'[t].pc = "idle")
              => Cardinality(DOMAIN byCode') = Cardinality(created')
      ]_vars

\* ========================================================= render queue
\* Mutant: the cache check never finds the file.
fileExists_Never(ch, key) == FALSE

\* fileExists(ogCachePath(key)): os.Stat finds a file, whatever it holds.
fileExists(ch, key) == ch[key] # "absent"

\* Mutant: the render runs in a goroutine of its own and the worker goes on
\* to the next job.
AfterRenderCall_Async == "recv"

\* The position of the worker once it has called renderOgImageToFileFunc:
\* the call is synchronous, the worker waits for it to return.
AfterRenderCall == "render"

\* Mutant: a receive returns the newest job.
RecvIndex_Last(q) == Len(q)

\* The index in the channel buffer of the job that a receive returns.
RecvIndex(q) == 1

\* Mutant: a receive takes the job behind the received one out of the
\* buffer as well.
RemoveAt_DropsNext(q, i) == SubSeq(q, 1, i - 1) \o SubSeq(q, i + 2, Len(q))

\* The channel buffer without the element at index i.
RemoveAt(q, i) == SubSeq(q, 1, i - 1) \o SubSeq(q, i + 1, Len(q))

\* What a run of renderOgImageToFile can end in: success, a nonzero exit of
\* the converter, the timeout, or an error before the converter starts
\* (LookPath, MkdirAll, template).
Outcomes == {"ok", "exit", "timeout", "unavailable"}

\* Mutant: a failed converter run leaves its output file in place.
CacheAfter_NoRemove(state, outcome) ==
    IF outcome = "ok" THEN "complete" ELSE state

\* The file at destPath after renderOgImageToFile returns: written on
\* success, removed after a nonzero exit, left as it is otherwise.
CacheAfter(state, outcome) ==
    CASE outcome = "ok" -> "complete"
      [] outcome = "exit" -> "absent"
      [] OTHER -> state

\* Mutant: renderOgImageToFile returns nil whatever the run ended in.
ErrorOf_AlwaysNil(outcome) == "nil"

\* The error value that renderOgImageToFile returns: nil, "rsvg-convert
\* failed" after a nonzero exit, ctx.Err() after the timeout, or the error
\* of LookPath, MkdirAll or the template read.
ErrorOf(outcome) == IF outcome = "ok" THEN "nil" ELSE outcome

\* og-image requests: the method and whether the text is one to render
\* (not empty, not a path, not blocked); the key is ogCacheKey(text).
OgRequests == [method : {"GET", "POST"}, usable : BOOLEAN, key : Keys]

\* The body that writePngFile sends for a cache path: the file as it is at
\* that moment, or 404 when it cannot be opened.
PngAnswer(c, key, state) ==
    [c |-> c, id |-> 0, key |-> key, err |-> FALSE,
     status |-> IF state = "absent" THEN 404 ELSE 200,
     body |-> IF state = "absent" THEN "none" ELSE state]

\* serveEmbedded of public/og-image.png, which is embedded in the binary.
DefaultAnswer(c, key) ==
    [c |-> c, id |-> 0, key |-> key, err |-> FALSE, status |-> 200, body |-> "default"]

\* Mutant: a failed render is answered with an error status.
RenderErrorAnswer_500(c, key) ==
    [c |-> c, id |-> 0, key |-> key, err |-> FALSE, status |-> 500, body |-> "none"]

\* handleOgImage when ogQueue.render returned an error: log, then the default
\* image.
RenderErrorAnswer(c, key) == DefaultAnswer(c, key)

\* handleOgImage when it answers without the queue: 405, the default image
\* for a text that is not rendered, or the cached file that fileExists found.
\* The goroutine of such a request takes this one step and is no caller of
\* render (caller 0).
HandleOgImageDirect ==
    /\ \E req \in OgRequests :
         /\ req.method = "POST" \/ ~req.usable \/ fileExists(cache, req.key)
         /\ ret' = IF req.method = "POST"
                   THEN [NoReturn EXCEPT !.status = 405]
                   ELSE IF ~req.usable THEN DefaultAnswer(0, "")
                   ELSE PngAnswer(0, "", cache[req.key])
    /\ UNCHANGED <<jobs, cl, done, wk, active, cache, calls, nextId, started, completed>>
    /\ UNCHANGED <<storeVars, limVars, codecVars, clientVars>>

\* render: done := make(chan error, 1), before the send. The caller is
\* handleOgImage, whose fileExists check found no file, or a direct caller.
CallRender(c) ==
    /\ cl[c].pc = "idle"
    /\ nextId + Cardinality({d \in Callers : cl[d].pc = "send"}) < MaxJobs
    /\ \E key \in Keys, via \in {"render", "handler"} :
         /\ via = "handler" => ~fileExists(cache, key)
         \* seen (history): the cache file of the key when render is called
         /\ cl' = [cl EXCEPT ![c] = [pc |-> "send", via |-> via, key |-> key,
                                     id |-> 0, seen |-> cache[key]]]
    /\ ret' = NoReturn
    /\ UNCHANGED <<jobs, done, wk, active, cache, calls, nextId, started, completed>>
    /\ UNCHANGED <<storeVars, limVars, codecVars, clientVars>>

\* render: q.jobs <- job, which blocks while the channel is full.
Enqueue(c) ==
    /\ cl[c].pc = "send"
    /\ Len(jobs) < QueueCap
    /\ nextId' = nextId + 1
    /\ jobs' = Append(jobs, [id |-> nextId + 1, key |-> cl[c].key, caller |-> c])
    /\ cl' = [cl EXCEPT ![c] = [@ EXCEPT !.pc = "wait", !.id = nextId + 1]]
    /\ ret' = NoReturn
    /\ UNCHANGED <<done, wk, active, cache, calls, started, completed>>
    /\ UNCHANGED <<storeVars, limVars, codecVars, clientVars>>

\* Mutant: the worker's test is negated.
CacheHit_Negated(ok) == ~ok

\* The worker's test `ok && err == nil` on the result of fileExists (os.Stat
\* on the cache path returns no other error than "not exist").
CacheHit(ok) == ok

\* run: receive the next job and check its cache file; on a hit send nil on
\* job.done, otherwise call renderOgImageToFileFunc.
WorkerRecv ==
    /\ wk.pc = "recv"
    /\ jobs # <<>>
    /\ LET job == jobs[RecvIndex(jobs)]
       IN  /\ jobs' = RemoveAt(jobs, RecvIndex(jobs))
           /\ started' = Append(started, job.id)
           /\ IF CacheHit(fileExists(cache, job.key))
              THEN /\ done' = [done EXCEPT ![job.caller] = "nil"]
                   /\ completed' = Append(completed, job.id)
                   /\ UNCHANGED <<wk, active, calls>>
              ELSE /\ active' = active \cup {job}
                   /\ calls' = [calls EXCEPT ![job.key] = @ + 1]
                   /\ wk' = [pc |-> AfterRenderCall, job |-> job]
                   /\ UNCHANGED <<done, completed>>
    /\ ret' = NoReturn
    /\ UNCHANGED <<cl, cache, nextId>>
    /\ UNCHANGED <<storeVars, limVars, codecVars, clientVars>>

\* The converter, which got destPath as its -o argument, creates the file
\* and starts to write it.
ConverterWrites ==
    /\ \E job \in active :
         /\ cache[job.key] = "absent"
         /\ cache' = [cache EXCEPT ![job.key] = "partial"]
    /\ ret' = NoReturn
    /\ UNCHANGED <<jobs, cl, done, wk, active, calls, nextId, started, completed>>
    /\ UNCHANGED <<storeVars, limVars, codecVars, clientVars>>

\* renderOgImageToFile returns and the worker sends the result on job.done.
RenderFinish ==
    /\ \E job \in active, outcome \in Outcomes :
         /\ outcome = "unavailable" => cache[job.key] = "absent"
         /\ cache' = [cache EXCEPT ![job.key] = CacheAfter(@, outcome)]
         /\ done' = [done EXCEPT ![job.caller] = ErrorOf(outcome)]
         /\ completed' = Append(completed, job.id)
         /\ active' = active \ {job}
    /\ wk' = IdleWorker
    /\ ret' = NoReturn
    /\ UNCHANGED <<jobs, cl, calls, nextId, started>>
    /\ UNCHANGED <<storeVars, limVars, codecVars, clientVars>>

\* render: return <-done; when the caller is handleOgImage, its answer.
Return(c) ==
    /\ cl[c].pc = "wait"
    /\ done[c] # "none"
    /\ ret' = LET r == IF cl[c].via = "render" THEN NoReturn
                        ELSE IF done[c] # "nil" THEN RenderErrorAnswer(c, cl[c].key)
                        ELSE PngAnswer(c, cl[c].key, cache[cl[c].key])
               IN  [r EXCEPT !.c = c, !.id = cl[c].id, !.key = cl[c].key,
                             !.err = (done[c] # "nil")]
    /\ done' = [done EXCEPT ![c] = "none"]
    /\ cl' = [cl EXCEPT ![c] = IdleCaller]
    /\ UNCHANGED <<jobs, wk, active, cache, calls, nextId, started, completed>>
    /\ UNCHANGED <<storeVars, limVars, codecVars, clientVars>>

QueueInit ==
    /\ QueueStart
    /\ cache \in [Keys -> {"absent", "complete"}]
    /\ StoreInit
    /\ LimiterStart
    /\ CodecStart
    /\ ClientStart
    /\ file = FileAbsent

\* The queue under direct calls of render, for any key and whatever the
\* cache holds, as the queue tests make them.
QueueNext ==
    \/ \E c \in Callers : CallRender(c) /\ cl'[c].via = "render"
    \/ \E c \in Callers : Enqueue(c)
    \/ WorkerRecv
    \/ ConverterWrites
    \/ RenderFinish
    \/ \E c \in Callers : Return(c)

QueueSpec == QueueInit /\ [][QueueNext]_vars

\* The queue when the goroutines are scheduled fairly and every run of the
\* render operation ends (the converter runs under a timeout): the worker
\* goes on whenever it can receive or its render can end, a caller that
\* can send or receive does so. New calls of render are under no
\* obligation.
QueueFairness ==
    /\ WF_vars(WorkerRecv)
    /\ WF_vars(RenderFinish)
    /\ \A c \in Callers : WF_vars(Enqueue(c)) /\ WF_vars(Return(c))

QueueLive == QueueSpec /\ QueueFairness

\* The queue behind handleOgImage: every render call comes from a request
\* whose existence check found no file.
OgNext ==
    \/ HandleOgImageDirect
    \/ \E c \in Callers : CallRender(c) /\ cl'[c].via = "handler"
    \/ \E c \in Callers : Enqueue(c)
    \/ WorkerRecv
    \/ ConverterWrites
    \/ RenderFinish
    \/ \E c \in Callers : Return(c)

OgSpec == QueueInit /\ [][OgNext]_vars


\* ============================================== rateLimiter.allow
\* Mutant: a timestamp equal to the cutoff is kept.
After_OrEqual(ts, cutoff) == ts >= cutoff

\* ts.After(cutoff)
After(ts, cutoff) == ts > cutoff

\* The timestamps of list that are after the cutoff, in order.
RECURSIVE Filter(_, _)
Filter(list, cutoff) ==
    IF list = <<>> THEN <<>>
    ELSE IF After(Head(list), cutoff) THEN <<Head(list)>> \o Filter(Tail(list), cutoff)
    ELSE Filter(Tail(list), cutoff)

\* Mutant: every key reads the hit list of the first key.
HitList_Shared(h, key) == h["ip1"]

\* list := rl.hits[key]
HitList(h, key) == h[key]

\* Mutant: the limit is tested with > instead of >=.
AtLimit_OffByOne(n) == n > RateMax

\* len(filtered) >= rl.max
AtLimit(n) == n >= RateMax

\* allow(key), which holds rl.mu from its first statement to its return:
\* concurrent calls run one after the other, in the order they get the
\* lock. The two readings of time.Now() in one call, for the cutoff and for
\* the appended timestamp, are one instant of the clock.
Allow(key) ==
    /\ Len(log) < MaxCalls
    /\ LET cutoff == now - RateWindow
           filtered == Filter(HitList(hits, key), cutoff)
       IN  IF AtLimit(Len(filtered))
           THEN /\ hits' = [hits EXCEPT ![key] = filtered]
                /\ log' = Append(log, [key |-> key, at |-> now, ok |-> FALSE])
           ELSE /\ hits' = [hits EXCEPT ![key] = Append(filtered, now)]
                /\ log' = Append(log, [key |-> key, at |-> now, ok |-> TRUE])
    /\ UNCHANGED now
    /\ UNCHANGED <<storeVars, queueVars, codecVars, clientVars>>

\* Time passes between calls.
Tick ==
    /\ now < MaxTime
    /\ now' = now + 1
    /\ UNCHANGED <<hits, log>>
    /\ UNCHANGED <<storeVars, queueVars, codecVars, clientVars>>

LimiterNext ==
    \/ \E key \in LimKeys : Allow(key)
    \/ Tick

LimiterInit ==
    /\ Init
    /\ file = FileAbsent

LimiterSpec == LimiterInit /\ [][LimiterNext]_vars

\* ------------------------------------- encodePathSegment and decodePath
\* The longest message converted.
MaxMsgLen == 3

\* The characters of the messages: a letter, the space, the underscore,
\* the characters that url.PathEscape escapes and two hexadecimal digits.
MsgChars == {"x", " ", "_", "%", "/", "2", "F"}

RECURSIVE SeqsUpTo(_, _)
SeqsUpTo(S, n) ==
    IF n = 0 THEN {<<>>}
    ELSE SeqsUpTo(S, n - 1)
            \cup {<<ch>> \o s : ch \in S, s \in {x \in SeqsUpTo(S, n - 1) : Len(x) = n - 1}}

Messages == SeqsUpTo(MsgChars, MaxMsgLen)

\* encoded := encodePathSegment(m)
Encode ==
    /\ codec.stage = "message"
    /\ codec' = [codec EXCEPT !.stage = "encoded", !.enc = encodePathSegment(codec.m)]
    /\ UNCHANGED <<storeVars, queueVars, limVars, clientVars>>

\* decoded := decodePath(encoded)
Decode ==
    /\ codec.stage = "encoded"
    /\ codec' = [codec EXCEPT !.stage = "decoded", !.dec = decodePath(codec.enc)]
    /\ UNCHANGED <<storeVars, queueVars, limVars, clientVars>>

CodecNext == Encode \/ Decode

CodecInit ==
    /\ StoreInit
    /\ QueueStart
    /\ LimiterStart
    /\ cache = [k \in Keys |-> "absent"]
    /\ file = FileAbsent
    /\ ClientStart
    /\ codec \in {[NoCodec EXCEPT !.stage = "message", !.m = m] : m \in Messages}

CodecSpec == CodecInit /\ [][CodecNext]_vars

\* ------------------------------------------------- clients that go away
\* Mutant: the goroutine of a request ends when its client has gone.
AfterDisconnect_Abort(pc) == "idle"

\* The position of a request's goroutine once its client has gone: no
\* handler reads r.Context(), and the render context is made from
\* context.Background(), so the goroutine stays where it is.
AfterDisconnect(pc) == pc

\* The client of a creation that is in its critical section goes away.
Disconnect(t) ==
    /\ th[t].pc \in {"c_open", "c_write"}
    /\ t \notin gone.req
    /\ gone' = [gone EXCEPT !.req = @ \cup {t}]
    /\ th' = [th EXCEPT ![t] = [@ EXCEPT !.pc = AfterDisconnect(@)]]
    /\ answer' = NoAnswer
    /\ UNCHANGED <<loaded, byCode, byCodeNil, byPath, mu, file, nreq, created,
                   installs, firstRes>>
    /\ UNCHANGED <<queueVars, limVars, codecVars>>

\* The client behind a render call whose job is enqueued goes away.
DisconnectCaller(c) ==
    /\ cl[c].pc = "wait"
    /\ cl[c].id \notin gone.job
    /\ gone' = [gone EXCEPT !.job = @ \cup {cl[c].id}]
    /\ cl' = [cl EXCEPT ![c] = [@ EXCEPT !.pc = AfterDisconnect(@)]]
    /\ ret' = NoReturn
    /\ UNCHANGED <<jobs, done, wk, active, cache, calls, nextId, started, completed>>
    /\ UNCHANGED <<storeVars, limVars, codecVars>>

\* The store and the queue share no state: a behaviour of CancelSpec runs
\* one of the two.
StoreOnly == nextId = 0 /\ \A c \in Callers : cl[c].pc = "idle"
QueueOnly == nreq = 0

\* Creations on a store without a snapshot file, whose writes succeed or
\* fail, and render calls for one key on an empty cache, with clients that
\* go away at any moment.
CancelNext ==
    \/ /\ StoreOnly
       /\ \E t \in Threads :
            \/ /\ nreq < Len(FreshPaths)
               /\ StartCreate(t)
               /\ th'[t].pc = "e_check"
               /\ th'[t].fullPath = FreshPaths[nreq + 1]
            \/ EnsureCheck(t)
            \/ EnsureRead(t)
            \/ EnsureMark(t)
            \/ EnsureInstall(t)
            \/ CreateLock(t)
            \/ CreateOpen(t)
            \/ CreateWrite(t)
            \/ Disconnect(t)
    \/ /\ QueueOnly
       /\ \/ \E c \in Callers :
               CallRender(c) /\ cl'[c].via = "render" /\ cl'[c].key = "k1"
          \/ \E c \in Callers : Enqueue(c)
          \/ WorkerRecv
          \/ ConverterWrites
          \/ RenderFinish
          \/ \E c \in Callers : Return(c)
          \/ \E c \in Callers : DisconnectCaller(c)

\* A goroutine that can take its next step takes it; the disk and the
\* converter answer in the end.
StoreFairness ==
    \A t \in Threads :
        /\ WF_vars(EnsureCheck(t)) /\ WF_vars(EnsureRead(t))
        /\ WF_vars(EnsureMark(t)) /\ WF_vars(EnsureInstall(t))
        /\ WF_vars(CreateLock(t))
        /\ WF_vars(CreateOpen(t)) /\ WF_vars(CreateWrite(t))

CancelSpec == FreshInit /\ [][CancelNext]_vars /\ StoreFairness /\ QueueFairness

\* ================================================== claims on the queue
\* The job that the worker receives in this step.
Received(job) ==
    /\ started' # started
    /\ \E i \in 1..Len(jobs) : jobs[i] = job
    /\ job.id = started'[Len(started')]

\* C6: at most one call of the underlying render operation is executing.
C6_RenderSerialization == Cardinality(active) <= 1

\* C6 witness: a render is executing while a job for another key waits in
\* the channel.
C6_Witness ==
    \E job \in active : \E i \in 1..Len(jobs) : jobs[i].key # job.key

C8_FifoOrder ==
    /\ started = [i \in 1..Len(started) |-> i]
    /\ completed = [i \in 1..Len(completed) |-> i]
    /\ Len(completed) <= Len(started)
    /\ Len(started) <= Len(completed) + 1
    /\ Len(started) <= nextId

\* C8 witness: two jobs wait in the channel after the worker has completed
\* an earlier one.
C8_Witness ==
    /\ Len(jobs) >= 2
    /\ Len(completed) >= 1

\* C14: when the converter exits with a nonzero status before the timeout,
\* renderOgImageToFile leaves no file at the cache path of the job and the
\* worker sends its error, which the render call of the job returns.
C14_RenderProcessFailure ==
    [][\A c \in Callers :
          /\ (done[c] = "none" /\ done'[c] = "exit")
                => /\ cl[c].pc = "wait"
                   /\ cache'[cl[c].key] = "absent"
          /\ (done[c] = "exit" /\ done'[c] = "none")
                => (ret'.c = c /\ ret'.id = cl[c].id /\ ret'.err)
      ]_vars

\* C14 witness: the worker has sent the error of a nonzero exit to a caller
\* and the cache path of the caller's key holds no file.
C14_Witness ==
    \E c \in Callers :
        /\ done[c] = "exit"
        /\ cache[cl[c].key] = "absent"

\* C15 (as claimed): when the render of a job ends by the timeout, the
\* worker sends an error that the render call returns, no file is left at
\* the cache path of the job, and so a later job for the key that finds no
\* completed file is rendered again.
C15_RenderTimeout ==
    [][\A c \in Callers :
          LET job == [id |-> cl[c].id, key |-> cl[c].key, caller |-> c]
          IN  /\ (done[c] = "none" /\ done'[c] = "timeout")
                    => cache'[cl[c].key] = "absent"
              /\ (done[c] = "timeout" /\ done'[c] = "none")
                    => (ret'.c = c /\ ret'.err)
              /\ (Received(job) /\ cache[job.key] # "complete")
                    => calls'[job.key] = calls[job.key] + 1
      ]_vars

\* C16 (as claimed): the file that handleOgImage serves after its existence
\* check, or after render returned nil, is the output of a render that
\* completed successfully, never one that the converter has only partly
\* written; and the worker's check counts only such a file as a cache hit.
C16_NoHalfWrittenHit ==
    [][/\ ret'.body # "partial"
       /\ \A c \in Callers :
            LET job == [id |-> cl[c].id, key |-> cl[c].key, caller |-> c]
            IN  (Received(job) /\ UNCHANGED calls) => cache[job.key] = "complete"
      ]_vars

\* C17: once the file of a key is the output of a completed render, no step
\* of the queue calls the render operation for that key again, and none
\* removes or rewrites the file, whatever the later jobs and their outcomes.
C17_ImmutableCacheEntry ==
    [][\A k \in Keys :
          cache[k] = "complete"
              => /\ cache'[k] = "complete"
                 /\ calls'[k] = calls[k]
                 /\ \A job \in active' : job.key # k
      ]_vars

\* C17 witness: two render calls for the same key, both made when the file
\* was missing, both got nil, and the render operation ran once for the key.
C17_Witness ==
    \E c \in Callers, d \in Callers :
        /\ c # d
        /\ cl[c].key = cl[d].key
        /\ cl[c].seen = "absent" /\ cl[d].seen = "absent"
        /\ done[c] = "nil" /\ done[d] = "nil"
        /\ calls[cl[c].key] = 1
        /\ cache[cl[c].key] = "complete"

\* The jobs channel holds exactly the jobs that were enqueued and not yet
\* received, in order, and never more than its capacity.
NoJobDropped ==
    /\ Len(jobs) <= QueueCap
    /\ Len(started) + Len(jobs) = nextId
    /\ \A i \in 1..Len(jobs) : jobs[i].id = Len(started) + i

\* C18: under fair scheduling, with render runs that end, every render call
\* returns (the callers make finitely many calls, so that in the end all of
\* them have returned for good); the result a call returns is the one the
\* worker sent for its own job, sent once, on a done channel that was empty
\* (the worker's send does not block); a caller that finds the channel full
\* waits in its send, and no job leaves the channel other than by the
\* worker's receive.
C18_RenderCompletion ==
    /\ <>[](\A c \in Callers : cl[c].pc = "idle")
    /\ []NoJobDropped
    /\ [][\A c \in Callers :
            /\ (done'[c] # done[c] /\ done'[c] # "none")
                  => /\ done[c] = "none"
                     /\ cl[c].pc = "wait"
                     /\ completed' = Append(completed, cl[c].id)
            /\ (cl[c].pc # "idle" /\ cl'[c].pc = "idle")
                  => /\ done[c] # "none"
                     /\ ret'.c = c /\ ret'.id = cl[c].id
                     /\ ret'.err = (done[c] # "nil")
                     /\ done'[c] = "none"
            /\ (cl[c].pc = "send" /\ Len(jobs) >= QueueCap) => cl'[c] = cl[c]
         ]_vars

\* C18 witness: a caller waits in its send on the full channel.
C18_Witness ==
    /\ Len(jobs) = QueueCap
    /\ \E c \in Callers : cl[c].pc = "send"

\* C19: when ogQueue.render returns an error to handleOgImage, whichever
\* error it is, the handler answers 200 with the embedded default image.
C19_RenderFallback ==
    [][/\ \A c \in Callers :
            (cl[c].via = "handler" /\ cl[c].pc = "wait" /\ cl'[c].pc = "idle"
               /\ done[c] \in {"exit", "timeout", "unavailable"})
                => /\ ret'.c = c
                   /\ ret'.err
                   /\ ret'.status = 200
                   /\ ret'.body = "default"
       /\ ret'.err => ret'.status = 200
      ]_vars

\* C19 witness: a request whose render failed was answered with the default
\* image.
C19_Witness ==
    /\ ret.c # 0
    /\ ret.err
    /\ ret.status = 200
    /\ ret.body = "default"

\* ================================================ claims on the limiter
\* The calls of allow for key k whose time.Now() fell in the window that
\* starts at T, and those among them that returned true.
CallsIn(k, T) ==
    {i \in 1..Len(log) : log[i].key = k /\ log[i].at >= T /\ log[i].at < T + RateWindow}
AllowedIn(k, T) == {i \in CallsIn(k, T) : log[i].ok}

\* No call of allow for key k before time T left a timestamp that a call at
\* T or later still counts.
Expired(k, T) ==
    \A i \in 1..Len(log) :
        (log[i].key = k /\ log[i].ok /\ log[i].at < T) => log[i].at <= T - RateWindow

\* C20 (as claimed): for each key and each window, at most RateMax calls
\* return true, and once RateMax or more calls were made in the window
\* exactly RateMax of them have returned true.
C20_RateLimitBound ==
    \A k \in LimKeys, T \in 0..MaxTime :
        /\ Cardinality(AllowedIn(k, T)) <= RateMax
        /\ Cardinality(CallsIn(k, T)) >= RateMax
              => Cardinality(AllowedIn(k, T)) = RateMax

\* C20 (amended): for each key and each window, at most RateMax calls return
\* true; and when the timestamps of the calls allowed before the window have
\* expired by its start (as on a limiter that is new), the first RateMax
\* calls of the window return true and all later ones false.
C20_RateLimitWindow ==
    \A k \in LimKeys, T \in 0..MaxTime :
        /\ Cardinality(AllowedIn(k, T)) <= RateMax
        /\ Expired(k, T)
              => \A i \in CallsIn(k, T) :
                    log[i].ok = (Cardinality({j \in CallsIn(k, T) : j < i}) < RateMax)

\* C20 witness: more than RateMax calls for one key in one window, at a time
\* when earlier timestamps of the key had expired: the first RateMax were
\* allowed and a later one was refused.
C20_Witness ==
    \E k \in LimKeys, T \in 1..MaxTime :
        /\ Expired(k, T)
        /\ \E i \in 1..Len(log) : log[i].key = k /\ log[i].at < T
        /\ Cardinality(CallsIn(k, T)) > RateMax
        /\ Cardinality(AllowedIn(k, T)) = RateMax

\* The calls of allow for key k, among the first n of the log, that returned
\* true at a time later than cutoff.
Counted(k, n, cutoff) ==
    {i \in 1..n : log[i].key = k /\ log[i].ok /\ log[i].at > cutoff}

\* The times of the calls in set S, oldest first (the log is in time order).
RECURSIVE TimesOf(_, _)
TimesOf(S, i) ==
    IF i > Len(log) THEN <<>>
    ELSE IF i \in S THEN <<log[i].at>> \o TimesOf(S, i + 1)
    ELSE TimesOf(S, i + 1)

\* C21: a call of allow returns true exactly when fewer than RateMax earlier
\* allowed calls of its key are less than a window old; the hit list it
\* leaves holds those calls, and itself only when it returned true; and when
\* the previous call of the key was refused, the call is allowed once a
\* window has passed since the oldest hit that the refusal counted.
C21_RateLimitRecovery ==
    [][log' # log =>
         LET n == Len(log)
             e == log'[n + 1]
             k == e.key
             cur == Counted(k, n, e.at - RateWindow)
             prev == {j \in 1..n : log[j].key = k}
         IN  /\ e.ok = (Cardinality(cur) < RateMax)
             /\ hits'[k] = TimesOf(cur, 1) \o (IF e.ok THEN <<e.at>> ELSE <<>>)
             /\ ~e.ok => Len(hits'[k]) <= Len(hits[k])
             /\ \A j \in prev :
                  ((\A i \in prev : i <= j) /\ ~log[j].ok)
                      => LET old == Counted(k, j, log[j].at - RateWindow)
                         IN  (\E i \in old : \A h \in old : log[i].at <= log[h].at
                                                /\ e.at >= log[i].at + RateWindow)
                                 => e.ok
      ]_vars

\* C21 witness: a key that was refused is allowed again after the window.
C21_Witness ==
    \E j \in 1..Len(log) :
        /\ j < Len(log)
        /\ log[j].key = log[Len(log)].key
        /\ ~log[j].ok
        /\ log[Len(log)].ok
        /\ \A i \in (j + 1)..(Len(log) - 1) : log[i].key # log[j].key

\* Whether a call of allow for key k at time t with the hit lists h would be
\* refused.
WouldRefuse(h, k, t) ==
    Cardinality({i \in 1..Len(h[k]) : h[k][i] > t - RateWindow}) >= RateMax

\* C22: a call of allow for a key leaves the hit list of every other key as
\* it was, and with it the decision that a call for the other key would
\* get; its own result depends on the allowed calls of its own key only.
C22_KeyIndependence ==
    [][log' # log =>
         LET n == Len(log)
             e == log'[n + 1]
         IN  /\ \A k2 \in LimKeys \ {e.key} :
                  /\ hits'[k2] = hits[k2]
                  /\ \A t \in now..MaxTime : WouldRefuse(hits', k2, t) = WouldRefuse(hits, k2, t)
             /\ e.ok = ~WouldRefuse(hits, e.key, e.at)
             /\ e.ok = (Cardinality(Counted(e.key, n, e.at - RateWindow)) < RateMax)
      ]_vars

\* C22 witness: a key is allowed at an instant at which another key, which
\* has used up its limit, is refused.
C22_Witness ==
    \E i \in 1..Len(log), j \in 1..Len(log) :
        /\ i < j
        /\ log[i].key # log[j].key
        /\ log[i].at = log[j].at
        /\ ~log[i].ok
        /\ log[j].ok

\* ---------------------------------------------------------------- Resolve
\* The Location that stands for a stored path: the path itself when it has
\* the leading "/", otherwise "/" followed by the encoded message.
LocationOf(path) ==
    IF HasPrefix(path, <<"/">>) THEN path ELSE <<"/">> \o encodePathSegment(path)

\* C23 (as claimed): on a loaded store a redirect request with the right
\* method is answered 302 with the path of its code when the code is a key
\* of the forward index and 404 otherwise (the empty code too), and the
\* answering step changes neither index, nor the loaded flag, nor the file.
C23_Resolve ==
    [][\A t \in Threads :
          (/\ th[t].op = "redirect"
           /\ loaded
           /\ answer'.t = t
           /\ answer'.status \notin {405, 500})
              => /\ IF th[t].code \in DOMAIN byCode
                    THEN /\ answer'.status = 302
                         /\ answer'.path = LocationOf(byCode[th[t].code])
                    ELSE answer'.status = 404
                 /\ UNCHANGED <<byCode, byPath, loaded, file>>
      ]_vars

\* ------------------------------------------------- faults and the mutex
\* C24 (as claimed): no request faults, and the store mutex is held only by
\* a request that is inside its critical section, between the insertion and
\* the answer; so every request is answered with the mutex released.
C24_NoFaultLockReleased ==
    /\ \A t \in Threads : th[t].pc # "panic"
    /\ mu # 0 => th[mu].pc \in {"c_open", "c_write"}

\* ------------------------------------------- encode and decode of a path
\* C25 (as claimed): decoding the encoded message gives the message with
\* leading and trailing whitespace removed.
C25_RoundTrip ==
    codec.stage = "decoded" => codec.dec = TrimSpace(codec.m)

\* C25 (amended): decoding the encoded message gives the trimmed message
\* with every "_" replaced by a space and trimmed again; so it gives the
\* trimmed message itself whenever the message holds no "_".
C25_RoundTripUnderscore ==
    codec.stage = "decoded"
        => /\ codec.dec = TrimSpace(ReplaceChar(TrimSpace(codec.m), "_", " "))
           /\ ~Contains(codec.m, <<"_">>) => codec.dec = TrimSpace(codec.m)

\* C25 witness: a message with a space inside and an escaped character but
\* no "_" went through both conversions.
C25_Witness ==
    /\ codec.stage = "decoded"
    /\ ~Contains(codec.m, <<"_">>)
    /\ Contains(codec.enc, <<"_">>)
    /\ Contains(codec.enc, <<"%">>)
    /\ codec.dec = codec.m

\* ------------------------------------------------------ permanent entries
\* C26: every <<code, path>> that a creation answered 201 is in the forward
\* index and in the reverse index in every later state, whatever creations,
\* rollbacks and ensureShortlinksLoaded calls follow, and the loaded flag
\* never goes back to false.
C26_EntriesPermanent ==
    [][/\ \A x \in created' :
            /\ x[1] \in DOMAIN byCode' /\ byCode'[x[1]] = x[2]
            /\ x[2] \in DOMAIN byPath' /\ byPath'[x[2]] = x[1]
       /\ loaded => loaded'
      ]_vars

\* C26 witness: an entry was created while another request, which read the
\* snapshot file before the store was loaded, is still to reach the final
\* block of ensureShortlinksLoaded.
C26_Witness ==
    /\ created # {}
    /\ \E t \in Threads : th[t].pc = "e_install"

\* ----------------------------------------------------- same-key requests
\* C27: a render that returns nil leaves the complete cache file of its key;
\* from then on the render operation is not called for that key again, so a
\* key whose first render succeeded is rendered exactly once; and every job
\* of that key which was enqueued in the meantime is completed with nil from
\* the worker's cache check, without a render.
C27_SameKeyDedup ==
    [][/\ \A job \in active :
            (job \notin active' /\ done'[job.caller] = "nil")
                => cache'[job.key] = "complete"
       /\ \A k \in Keys :
            (cache[k] = "complete" /\ calls[k] = 1) => calls'[k] = 1
       /\ \A c \in Callers :
            LET job == [id |-> cl[c].id, key |-> cl[c].key, caller |-> c]
            IN  (Received(job) /\ cl[c].seen = "absent" /\ cache[job.key] = "complete")
                    => /\ done'[c] = "nil"
                       /\ UNCHANGED <<calls, active, cache>>
      ]_vars

\* C27 witness: a render call for a key has returned nil, a later job of the
\* same key, whose call was made when the file was missing, has its nil
\* waiting, and the render operation ran once for the key.
C27_Witness ==
    \E d \in Callers :
        /\ ret.c # 0 /\ ret.c # d
        /\ ~ret.err
        /\ cl[d].pc = "wait"
        /\ cl[d].key = ret.key
        /\ cl[d].seen = "absent"
        /\ done[d] = "nil"
        /\ calls[ret.key] = 1
        /\ cl[d].id > ret.id

\* -------------------------------------------------- snapshot completeness
\* C28: the step that answers a creation with 201 is made by the holder of
\* the store mutex and leaves in the snapshot file the whole forward index
\* as it is at that moment, every entry reported as created included; and
\* the file is changed by no one but the holder of the mutex inside its
\* critical section.
C28_SnapshotCompleteness ==
    [][/\ \A t \in Threads :
            (answer'.t = t /\ answer'.op = "create" /\ answer'.status = 201)
                => /\ mu = t
                   /\ byCode' = byCode
                   /\ file' = FileMap(byCode)
                   /\ \A x \in created' :
                         /\ x[1] \in DOMAIN file'.entries
                         /\ file'.entries[x[1]] = x[2]
       /\ file' # file => (mu # 0 /\ th[mu].pc \in {"c_open", "c_write"})
      ]_vars

\* C28 witness: the second of two creations was answered 201, and the file
\* holds the entries of both.
C28_Witness ==
    /\ answer.op = "create"
    /\ answer.status = 201
    /\ Cardinality(created) = 2
    /\ \A x \in created : x[1] \in DOMAIN file.entries

\* ---------------------------------------------------- rejected creations
Rejections == {405, 429, 413, 400, 403}

\* C29: the step that answers a creation request with 405, 429, 413, 400 or
\* 403 writes no file, records no creation and inserts nothing: the indices
\* stay as they are, unless the step is the one in which the request's
\* ensureShortlinksLoaded call installs the snapshot; 405 and 429 are
\* answered before anything is read. No rejected request ever enters the
\* critical section, and no path whose message the blocked-word filter
\* rejects is inserted or reported as created.
C29_RejectedDoNotCreate ==
    [][/\ \A t \in Threads :
            (answer'.t = t /\ answer'.op = "create" /\ answer'.status \in Rejections)
                => /\ UNCHANGED <<file, created, mu>>
                   /\ \/ UNCHANGED <<byCode, byPath>>
                      \/ /\ th[t].pc = "e_install"
                         /\ ~loaded
                         /\ byCode' = th[t].entries.m
                   /\ answer'.status \in {405, 429}
                        => (th[t].pc = "idle" /\ UNCHANGED <<byCode, byPath, loaded>>)
       /\ \A t \in Threads :
            th'[t].pc \in {"c_lock", "c_open", "c_write", "panic"}
                => /\ th'[t].verdict = 0
                   /\ ~isBlockedMessage(MessageOf(th'[t].fullPath))
       /\ \A x \in created' : ~isBlockedMessage(MessageOf(x[2]))
      ]_vars

\* C29 witness: on a store that has created an entry, a creation request
\* for a blocked message was answered 403.
C29_Witness ==
    /\ answer.op = "create"
    /\ answer.status = 403
    /\ created # {}

\* --------------------------------------------------- no caller cancellation
\* C30: a client that goes away changes nothing in the store or the queue.
\* A creation in its critical section whose client has gone still goes from
\* the open to the write and ends with the whole index written, the entry
\* kept and 201, or with both insertions undone and 500, and the mutex
\* released. A render job whose client has gone is received like any other:
\* completed from the cache check or rendered, its result is sent on its
\* done channel and the worker is free for the next job. And in the end
\* every request has returned and every job has been completed.
C30_NoCallerCancellation ==
    /\ [][/\ gone' # gone
               => /\ th' = th /\ cl' = cl
                  /\ UNCHANGED <<loaded, byCode, byPath, mu, file, created, jobs,
                                 done, wk, active, cache, calls, started, completed>>
          /\ \A t \in gone.req :
               /\ (th[t].pc = "c_open" /\ th'[t] # th[t])
                    => \/ th'[t].pc = "c_write" /\ mu' = t
                       \/ /\ answer'.t = t /\ answer'.status = 500 /\ mu' = 0
                          /\ byCode' = th[t].preCode /\ byPath' = th[t].prePath
               /\ (th[t].pc = "c_write" /\ th'[t] # th[t])
                    => \/ /\ answer'.t = t /\ answer'.status = 201 /\ mu' = 0
                          /\ file' = FileMap(byCode) /\ UNCHANGED <<byCode, byPath>>
                          /\ <<th[t].code, th[t].fullPath>> \in created'
                       \/ /\ answer'.t = t /\ answer'.status = 500 /\ mu' = 0
                          /\ byCode' = th[t].preCode /\ byPath' = th[t].prePath
          /\ \A c \in Callers :
               LET job == [id |-> cl[c].id, key |-> cl[c].key, caller |-> c]
               IN  cl[c].id \in gone.job
                     => /\ Received(job)
                             => \/ done'[c] = "nil" /\ wk' = IdleWorker
                                \/ active' = {job} /\ calls'[job.key] = calls[job.key] + 1
                        /\ (job \in active /\ job \notin active')
                             => /\ done'[c] # "none"
                                /\ wk' = IdleWorker
                                /\ completed' = Append(completed, job.id)
         ]_vars
    /\ <>[](/\ \A t \in Threads : th[t].pc = "idle"
            /\ \A c \in Callers : cl[c].pc = "idle"
            /\ jobs = <<>> /\ active = {} /\ mu = 0)

\* C30 witness: the client of a render job went away, the job was rendered
\* all the same, and the worker has gone on to the job behind it.
C30_Witness ==
    /\ ret.c # 0
    /\ ret.id \in gone.job
    /\ ~ret.err
    /\ calls[ret.key] = 1
    /\ Len(started) > ret.id

====
